---------------------------- MODULE Spec2Model ----------------------------
(***************************************************************************)
(* A model of index_model/index.py (class IndexModel): the calendar        *)
(* helpers, the top-3 ranking, the weighted valuation, the row-by-row      *)
(* pass of calc_index_level and export_values.                             *)
(*                                                                         *)
(* Prices are integers and every float the program computes is modelled   *)
(* as an exact rational <<numerator, denominator>> in lowest terms, so     *)
(* float rounding is outside the model.                                    *)
(***************************************************************************)
EXTENDS Integers, Sequences, FiniteSets, TLC

VARIABLES
    df,                   \* self.df: the rows, each a tuple of cells <<Date, price, ...>>
    columns,              \* self.df.columns: the column labels
    idx,                  \* number of rows the loop has consumed = index of the next row
    top,                  \* <<top_1, top_2, top_3>>
    old_tops,             \* old_tops
    divisor,              \* divisor
    old_portfolio_value,  \* old_portfolio_value
    portfolio_value,      \* the list portfolio_value
    index_level,          \* the list index_level
    exported,             \* what export_values wrote: [header, rows]
    pc,                   \* "loop", "done", "exported" (engine); "call", "ret" (helpers)
    call,                 \* the pending helper call: [fn, arg, n]
    ret                   \* the helper's return value

vars == <<df, columns, idx, top, old_tops, divisor, old_portfolio_value,
          portfolio_value, index_level, exported, pc, call, ret>>

engineVars == <<df, columns, idx, top, old_tops, divisor, old_portfolio_value,
                portfolio_value, index_level, exported>>

-----------------------------------------------------------------------------
(* Bounds of the model *)

\* longest table (number of data rows)
MaxRows == 26
\* the first row's date is one of the working days StartBase .. StartBase + StartSpan
StartSpan == 11
\* number of synthetic price patterns
NumSeeds == 2
\* prices are PriceBase .. PriceBase + PriceMod - 1
PriceBase == 10
PriceMod == 13
\* helper specifications: years YearLo .. YearLo + NumYears, lists up to MaxLen over 1..MaxVal
YearLo == 2019
NumYears == 10
MaxLen == 5
MaxVal == 3

StartBase == [year |-> 2020, month |-> 1, day |-> 27]

-----------------------------------------------------------------------------
(* Exact rationals standing for the program's floats *)

Abs(n) == IF n < 0 THEN -n ELSE n

RECURSIVE GCD(_, _)
GCD(a, b) == IF b = 0 THEN a ELSE GCD(b, a % b)

Rat(n, d) ==
    LET g == GCD(Abs(n), Abs(d))
        s == IF d < 0 THEN -1 ELSE 1
    IN  <<(s * n) \div g, (s * d) \div g>>

RAdd(a, b) == Rat(a[1] * b[2] + b[1] * a[2], a[2] * b[2])
RMul(a, b) == Rat(a[1] * b[1], a[2] * b[2])
RDiv(a, b) == Rat(a[1] * b[2], a[2] * b[1])

\* float(x) of an integer price
float(x) == Rat(x, 1)

-----------------------------------------------------------------------------
(* Ranking: top_n, top3_list_index *)

\* list.sort(reverse=True): insertion of x into a descending list
RECURSIVE InsertDesc(_, _)
InsertDesc(x, s) ==
    IF s = <<>> THEN <<x>>
    ELSE IF x >= Head(s) THEN <<x>> \o s
    ELSE <<Head(s)>> \o InsertDesc(x, Tail(s))

RECURSIVE SortDesc(_)
SortDesc(s) == IF s = <<>> THEN <<>> ELSE InsertDesc(Head(s), SortDesc(Tail(s)))

Min(a, b) == IF a < b THEN a ELSE b

\* vals[:n] for n >= 0
Prefix(s, n) == SubSeq(s, 1, Min(n, Len(s)))

top_n(values, n) == Prefix(SortDesc(values), n)

ListIndex_last(vals, v) == (CHOOSE i \in 1..Len(vals) : vals[i] = v /\ \A j \in (i + 1)..Len(vals) : vals[j] # v) - 1

\* list.index(v): the 0-based position of the first element equal to v
ListIndex(vals, v) == (CHOOSE i \in 1..Len(vals) : vals[i] = v /\ \A j \in 1..(i - 1) : vals[j] # v) - 1

\* tops[1] or tops[2] of a list shorter than 3 raises IndexError
top3_list_index(vals) ==
    LET tops == top_n(vals, 3)
    IN  IF Len(tops) < 3 THEN "IndexError"
        ELSE <<ListIndex(vals, tops[1]), ListIndex(vals, tops[2]), ListIndex(vals, tops[3])>>

-----------------------------------------------------------------------------
(* Valuation: calc_portfolio_value *)

calc_portfolio_value_swapped(prices) ==
    RAdd(RAdd(RMul(Rat(1, 4), float(prices[1])), RMul(Rat(1, 2), float(prices[2]))),
         RMul(Rat(1, 4), float(prices[3])))

calc_portfolio_value(prices) ==
    RAdd(RAdd(RMul(Rat(1, 2), float(prices[1])), RMul(Rat(1, 4), float(prices[2]))),
         RMul(Rat(1, 4), float(prices[3])))

-----------------------------------------------------------------------------
(* Calendar: dates are DD/MM/YYYY strings, modelled as tuples of characters *)

DigitChars == <<"0", "1", "2", "3", "4", "5", "6", "7", "8", "9">>

DigitVal(c) == (CHOOSE i \in 1..10 : DigitChars[i] = c) - 1

\* int(s) of a string of digits
RECURSIVE ParseInt(_)
ParseInt(s) ==
    IF s = <<>> THEN 0
    ELSE 10 * ParseInt(SubSeq(s, 1, Len(s) - 1)) + DigitVal(s[Len(s)])

\* int(date[6:]), int(date[3:5]), int(date[:2])
split_date(date) ==
    [year  |-> ParseInt(SubSeq(date, 7, Len(date))),
     month |-> ParseInt(SubSeq(date, 4, 5)),
     day   |-> ParseInt(SubSeq(date, 1, 2))]

\* dt.date(year, month, day)
Date(y, m, d) == [year |-> y, month |-> m, day |-> d]

\* calendar.isleap
isleap(y) == y % 4 = 0 /\ (y % 100 # 0 \/ y % 400 = 0)

mdays == <<31, 28, 31, 30, 31, 30, 31, 31, 30, 31, 30, 31>>

\* calendar.monthrange(year, month)[1]
monthrange_days(y, m) == mdays[m] + (IF m = 2 /\ isleap(y) THEN 1 ELSE 0)

RECURSIVE days_before_month(_, _)
days_before_month(y, m) ==
    IF m = 1 THEN 0 ELSE days_before_month(y, m - 1) + monthrange_days(y, m - 1)

\* datetime.date.toordinal: 1 is 0001-01-01, a Monday
toordinal(y, m, d) ==
    (y - 1) * 365 + ((y - 1) \div 4) - ((y - 1) \div 100) + ((y - 1) \div 400)
        + days_before_month(y, m) + d

\* calendar.weekday(year, month, day): Monday = 0 .. Sunday = 6
weekday(y, m, d) == (toordinal(y, m, d) + 6) % 7

month_last_day(dates) ==
    LET s == split_date(dates)
    IN  Date(s.year, s.month, monthrange_days(s.year, s.month))

last_working_day_offbyone(dates) ==
    LET last_day == month_last_day(dates)
        day == weekday(last_day.year, last_day.month, last_day.day)
        l_day == IF day = 5 THEN last_day.day - 2
                 ELSE IF day = 6 THEN last_day.day - 1
                 ELSE last_day.day
    IN  Date(last_day.year, last_day.month, l_day)

last_working_day(dates) ==
    LET last_day == month_last_day(dates)
        day == weekday(last_day.year, last_day.month, last_day.day)
        l_day == IF day = 5 THEN last_day.day - 1
                 ELSE IF day = 6 THEN last_day.day - 2
                 ELSE last_day.day
    IN  Date(last_day.year, last_day.month, l_day)

first_working_day_noweekend(dates) ==
    LET s == split_date(dates)
    IN  Date(s.year, s.month, 1)

first_working_day(dates) ==
    LET s == split_date(dates)
        f_day == weekday(s.year, s.month, 1)
        day == IF f_day = 5 THEN 3
               ELSE IF f_day = 6 THEN 2
               ELSE 1
    IN  Date(s.year, s.month, day)

-----------------------------------------------------------------------------
(* The input table: what pd.read_csv put into self.df *)

Digits2(n) == <<DigitChars[(n \div 10) + 1], DigitChars[(n % 10) + 1]>>

Digits4(n) == Digits2(n \div 100) \o Digits2(n % 100)

\* a date written DD/MM/YYYY
FormatDate(d) == Digits2(d.day) \o <<"/">> \o Digits2(d.month) \o <<"/">> \o Digits4(d.year)

NextDay(d) ==
    IF d.day < monthrange_days(d.year, d.month) THEN Date(d.year, d.month, d.day + 1)
    ELSE IF d.month < 12 THEN Date(d.year, d.month + 1, 1)
    ELSE Date(d.year + 1, 1, 1)

RECURSIVE AddDays(_, _)
AddDays(d, k) == IF k = 0 THEN d ELSE AddDays(NextDay(d), k - 1)

IsWorkingDay(d) == weekday(d.year, d.month, d.day) < 5

\* the month's first and last Monday-Friday day, straight from the calendar
FirstWorkingDayOfMonth(y, m) ==
    CHOOSE k \in 1..monthrange_days(y, m) :
        /\ IsWorkingDay(Date(y, m, k))
        /\ \A j \in 1..(k - 1) : ~IsWorkingDay(Date(y, m, j))

LastWorkingDayOfMonth(y, m) ==
    CHOOSE k \in 1..monthrange_days(y, m) :
        /\ IsWorkingDay(Date(y, m, k))
        /\ \A j \in (k + 1)..monthrange_days(y, m) : ~IsWorkingDay(Date(y, m, j))

\* which rows a table leaves out: none, every month's first working day, or every
\* month's last working day
GapKinds == {"none", "no_first", "no_last"}

InTable(d, gap) ==
    /\ IsWorkingDay(d)
    /\ gap = "no_first" => d.day # FirstWorkingDayOfMonth(d.year, d.month)
    /\ gap = "no_last" => d.day # LastWorkingDayOfMonth(d.year, d.month)

RECURSIVE NextInTable(_, _)
NextInTable(d, gap) == IF InTable(d, gap) THEN d ELSE NextInTable(NextDay(d), gap)

Seeds == 1..NumSeeds

\* the price of symbol j on the day with ordinal o under pattern seed: pattern 1
\* has pairwise distinct prices (or all equal), the others have ties
PriceAt(seed, o, j) == PriceBase + (((j * (o + seed)) % PriceMod) \div seed)

MakeRow(d, seed, w) ==
    LET o == toordinal(d.year, d.month, d.day)
    IN  <<FormatDate(d)>> \o [j \in 1..w |-> PriceAt(seed, o, j)]

\* n rows on consecutive table days from d on
RECURSIVE BuildRows(_, _, _, _, _)
BuildRows(d, n, seed, w, gap) ==
    IF n = 0 THEN <<>>
    ELSE LET e == NextInTable(d, gap)
         IN  <<MakeRow(e, seed, w)>> \o BuildRows(NextDay(e), n - 1, seed, w, gap)

StartDates == {d \in {AddDays(StartBase, k) : k \in 0..StartSpan} : IsWorkingDay(d)}

\* the number of price columns a row slice row[1:12] can hold
NumSymbols == 11

\* tables with one price column fewer are read as well
Widths == {NumSymbols - 1, NumSymbols}

Header(w) == <<"Date">> \o [j \in 1..w |-> "Stock"]

-----------------------------------------------------------------------------
(* calc_index_level: one action per branch of the loop body *)

\* positional access row[k], k counted from 0
Cell(row, k) == row[k + 1]

Row == df[idx + 1]

RowDate == Cell(Row, 0)

\* dt.date(year, month, day) of the row's Date
RowAsDate(date) == LET s == split_date(date) IN Date(s.year, s.month, s.day)

RowPrices(row, sel) == <<Cell(row, sel[1]), Cell(row, sel[2]), Cell(row, sel[3])>>

\* list(row[1:12])
PriceList(row) == SubSeq(row, 2, Min(12, Len(row)))

IsRebalanceDay(date) == RowAsDate(date) = last_working_day(date)

IsDivisorDay(date) == RowAsDate(date) = first_working_day(date)

UsesOldSelection_late(index) == index > 4

UsesOldSelection_never(index) == FALSE

\* if index > 3
UsesOldSelection(index) == index > 3

NewDivisor_inverted(new_value, old_value, div) == RMul(RDiv(old_value, new_value), div)

\* new_portfolio_value / old_portfolio_value * divisor
NewDivisor(new_value, old_value, div) == RMul(RDiv(new_value, old_value), div)

LevelOf_undivided(prices, div) == calc_portfolio_value(prices)

\* self.calc_portfolio_value(prices) / divisor
LevelOf(prices, div) == RDiv(calc_portfolio_value(prices), div)

\* top3_list_index(price_list), each position then incremented by one
NewSelection(price_list) ==
    LET t == top3_list_index(price_list) IN <<t[1] + 1, t[2] + 1, t[3] + 1>>

InLoop == pc = "loop" /\ idx < Len(df)

RebalanceRow ==
    /\ InLoop
    /\ IsRebalanceDay(RowDate)
    /\ LET prices == RowPrices(Row, top)
       IN  /\ portfolio_value' = Append(portfolio_value, calc_portfolio_value(prices))
           /\ old_tops' = top
           /\ top' = NewSelection(PriceList(Row))
           /\ index_level' = Append(index_level, LevelOf(prices, divisor))
    /\ idx' = idx + 1
    /\ UNCHANGED <<df, columns, divisor, old_portfolio_value, exported, pc, call, ret>>

DivisorUpdateRow ==
    /\ InLoop
    /\ ~IsRebalanceDay(RowDate)
    /\ IsDivisorDay(RowDate)
    /\ LET prices == RowPrices(Row, top)
           old_value == IF UsesOldSelection(idx)
                        THEN calc_portfolio_value(RowPrices(Row, old_tops))
                        ELSE old_portfolio_value
           new_divisor == NewDivisor(calc_portfolio_value(prices), old_value, divisor)
       IN  /\ portfolio_value' = Append(portfolio_value, calc_portfolio_value(prices))
           /\ old_portfolio_value' = old_value
           /\ divisor' = new_divisor
           /\ index_level' = Append(index_level, LevelOf(prices, new_divisor))
    /\ idx' = idx + 1
    /\ UNCHANGED <<df, columns, top, old_tops, exported, pc, call, ret>>

OrdinaryRow ==
    /\ InLoop
    /\ ~IsRebalanceDay(RowDate)
    /\ ~IsDivisorDay(RowDate)
    /\ LET prices == RowPrices(Row, top)
       IN  /\ portfolio_value' = Append(portfolio_value, calc_portfolio_value(prices))
           /\ index_level' = Append(index_level, LevelOf(prices, divisor))
    /\ idx' = idx + 1
    /\ UNCHANGED <<df, columns, top, old_tops, divisor, old_portfolio_value,
                   exported, pc, call, ret>>

\* the loop is over: the two lists become the columns Index_Portfolio_Value and Index_Level
AssignColumns ==
    /\ pc = "loop"
    /\ idx = Len(df)
    /\ df' = [i \in 1..Len(df) |-> df[i] \o <<portfolio_value[i], index_level[i]>>]
    /\ columns' = columns \o <<"Index_Portfolio_Value", "Index_Level">>
    /\ pc' = "done"
    /\ UNCHANGED <<idx, top, old_tops, divisor, old_portfolio_value, portfolio_value,
                   index_level, exported, call, ret>>

\* the second column of iloc[2:, [0, 12]]
ExportColumn == 12

\* the first row of iloc[2:, [0, 12]]
ExportFirstRow == 2

export_values ==
    /\ pc = "done"
    /\ exported' =
         [header |-> <<Cell(columns, 0), Cell(columns, ExportColumn)>>,
          rows   |-> [i \in 1..(IF Len(df) > ExportFirstRow THEN Len(df) - ExportFirstRow ELSE 0) |->
                        <<Cell(df[i + ExportFirstRow], 0),
                          Cell(df[i + ExportFirstRow], ExportColumn)>>]]
    /\ pc' = "exported"
    /\ UNCHANGED <<df, columns, idx, top, old_tops, divisor, old_portfolio_value,
                   portfolio_value, index_level, call, ret>>

NoCall == [fn |-> "none", arg |-> <<>>, n |-> 0]

\* the locals of calc_index_level before the first row, over a table just read
Init ==
    /\ \E d \in StartDates, n \in 0..MaxRows, seed \in Seeds, w \in Widths, gap \in GapKinds :
          /\ df = BuildRows(d, n, seed, w, gap)
          /\ columns = Header(w)
    /\ idx = 0
    /\ top = <<1, 1, 1>>
    /\ old_tops = <<1, 1, 1>>
    /\ divisor = Rat(1, 1)
    /\ old_portfolio_value = Rat(100, 1)
    /\ portfolio_value = <<>>
    /\ index_level = <<>>
    /\ exported = [header |-> <<>>, rows |-> <<>>]
    /\ pc = "loop"
    /\ call = NoCall
    /\ ret = <<>>

Next ==
    \/ RebalanceRow
    \/ DivisorUpdateRow
    \/ OrdinaryRow
    \/ AssignColumns
    \/ export_values

Spec == Init /\ [][Next]_vars

-----------------------------------------------------------------------------
(* The calendar helpers called on their own *)

Years == YearLo..(YearLo + NumYears) \cup {1900, 2000, 2100}

IdleEngine ==
    /\ df = <<>>
    /\ columns = <<>>
    /\ idx = 0
    /\ top = <<1, 1, 1>>
    /\ old_tops = <<1, 1, 1>>
    /\ divisor = Rat(1, 1)
    /\ old_portfolio_value = Rat(100, 1)
    /\ portfolio_value = <<>>
    /\ index_level = <<>>
    /\ exported = [header |-> <<>>, rows |-> <<>>]

InitCal ==
    /\ IdleEngine
    /\ pc = "call"
    /\ \E y \in Years, m \in 1..12, d \in {1, 15, 28} :
          call = [fn |-> "none", arg |-> FormatDate(Date(y, m, d)), n |-> 0]
    /\ ret = <<>>

CallFirstWorkingDay ==
    /\ pc = "call"
    /\ call' = [call EXCEPT !.fn = "first_working_day"]
    /\ ret' = first_working_day(call.arg)
    /\ pc' = "ret"
    /\ UNCHANGED engineVars

CallLastWorkingDay ==
    /\ pc = "call"
    /\ call' = [call EXCEPT !.fn = "last_working_day"]
    /\ ret' = last_working_day(call.arg)
    /\ pc' = "ret"
    /\ UNCHANGED engineVars

NextCal == CallFirstWorkingDay \/ CallLastWorkingDay

SpecCal == InitCal /\ [][NextCal]_vars

-----------------------------------------------------------------------------
(* The ranking helpers called on their own *)

InitRank ==
    /\ IdleEngine
    /\ pc = "call"
    /\ \E len \in 0..MaxLen :
          \E vals \in [1..len -> 1..MaxVal] :
             call = [fn |-> "none", arg |-> vals, n |-> 0]
    /\ ret = <<>>

CallTopN ==
    /\ pc = "call"
    /\ \E n \in 0..MaxLen :
          /\ call' = [call EXCEPT !.fn = "top_n", !.n = n]
          /\ ret' = top_n(call.arg, n)
    /\ pc' = "ret"
    /\ UNCHANGED engineVars

CallTop3ListIndex ==
    /\ pc = "call"
    /\ call' = [call EXCEPT !.fn = "top3_list_index"]
    /\ ret' = top3_list_index(call.arg)
    /\ pc' = "ret"
    /\ UNCHANGED engineVars

NextRank == CallTopN \/ CallTop3ListIndex

SpecRank == InitRank /\ [][NextRank]_vars

-----------------------------------------------------------------------------
(* Vocabulary of the properties *)

\* the date of table row i (counted from 1)
DateOfRow(i) == RowAsDate(Cell(df[i], 0))

\* the row's date is its month's last / first Monday-Friday day
IsLastWorkingDate(d) == d.day = LastWorkingDayOfMonth(d.year, d.month)

IsFirstWorkingDate(d) == d.day = FirstWorkingDayOfMonth(d.year, d.month)

\* 0.5*p1 + 0.25*p2 + 0.25*p3 over the columns sel of a row
WeightedValue(row, sel) ==
    Rat(2 * Cell(row, sel[1]) + Cell(row, sel[2]) + Cell(row, sel[3]), 4)

\* a loop iteration consumes the row Row
RowStep == InLoop /\ idx' = idx + 1

\* the working day after d
RECURSIVE NextWorkingDate(_)
NextWorkingDate(d) ==
    LET e == NextDay(d) IN IF IsWorkingDay(e) THEN e ELSE NextWorkingDate(e)

\* one row for every Monday-Friday date of the table's span, ascending
Gapless == \A i \in 1..(Len(df) - 1) : DateOfRow(i + 1) = NextWorkingDate(DateOfRow(i))

One == Rat(1, 1)

-----------------------------------------------------------------------------
(* C1 *)

\* C1 (as amended): on a row whose date is its month's last business day, the
\* recorded PortfolioValue is 0.5*p1 + 0.25*p2 + 0.25*p3 over the selection in
\* effect before the row; the selection computed from the row's own prices is
\* adopted for the rows after it.
C1_RebalanceRowValuedWithPreviousSelection ==
    [][(RowStep /\ IsLastWorkingDate(DateOfRow(idx + 1))) =>
          /\ portfolio_value'[idx + 1] = WeightedValue(Row, top)
          /\ top' = NewSelection(PriceList(Row))]_vars

\* C1 as stated: on a rebalance row the recorded PortfolioValue is taken over
\* the selection newly computed from that row's prices.
C1_RebalanceRowValuedWithNewSelection ==
    [][(RowStep /\ IsLastWorkingDate(DateOfRow(idx + 1))) =>
          portfolio_value'[idx + 1] = WeightedValue(Row, top')]_vars

\* a rebalance row has just been consumed and the two selections value it differently
C1_Witness ==
    /\ pc = "loop"
    /\ idx >= 1
    /\ IsLastWorkingDate(DateOfRow(idx))
    /\ top = NewSelection(PriceList(df[idx]))
    /\ portfolio_value[idx] = WeightedValue(df[idx], old_tops)
    /\ WeightedValue(df[idx], old_tops) # WeightedValue(df[idx], top)

-----------------------------------------------------------------------------
(* C2 *)

\* C2: at a divisor-update row with index >= 4 the recorded index level, the
\* value of the current selection over the new divisor, equals the value of
\* the old selection at the same row over the divisor before the update; the
\* old selection is the one a rebalance row replaces.
C2_DivisorContinuity ==
    [][/\ (RowStep /\ IsFirstWorkingDate(DateOfRow(idx + 1)) /\ idx >= 4) =>
            /\ index_level'[idx + 1] = RDiv(WeightedValue(Row, top), divisor')
            /\ index_level'[idx + 1] = RDiv(WeightedValue(Row, old_tops), divisor)
       /\ (RowStep /\ IsLastWorkingDate(DateOfRow(idx + 1))) => old_tops' = top]_vars

\* a divisor update at index >= 4 has just switched between two selections of
\* different value
C2_Witness ==
    /\ pc = "loop"
    /\ idx >= 5
    /\ IsFirstWorkingDate(DateOfRow(idx))
    /\ WeightedValue(df[idx], old_tops) # WeightedValue(df[idx], top)
    /\ divisor # One
    /\ index_level[idx] # portfolio_value[idx]

-----------------------------------------------------------------------------
(* C3 *)

\* C3: a divisor-update row with index 0..3 sets the divisor to
\* value(current selection) / 100 * divisor, which records the level 100 when
\* the divisor was 1; with index >= 4 the denominator is the value of the old
\* selection at the row.
C3_WarmupUsesHundred ==
    [][(RowStep /\ IsFirstWorkingDate(DateOfRow(idx + 1))) =>
          /\ idx <= 3 =>
               /\ divisor' = RMul(RDiv(WeightedValue(Row, top), Rat(100, 1)), divisor)
               /\ divisor = One => index_level'[idx + 1] = Rat(100, 1)
          /\ idx >= 4 =>
               divisor' = RMul(RDiv(WeightedValue(Row, top), WeightedValue(Row, old_tops)),
                               divisor)]_vars

\* a divisor update at index 3, after a rebalance, has recorded the level 100
C3_Witness ==
    /\ pc = "loop"
    /\ idx = 4
    /\ IsFirstWorkingDate(DateOfRow(idx))
    /\ top # old_tops
    /\ WeightedValue(df[idx], old_tops) # Rat(100, 1)
    /\ index_level[idx] = Rat(100, 1)
    /\ divisor = RDiv(WeightedValue(df[idx], top), Rat(100, 1))

-----------------------------------------------------------------------------
(* C4 *)

\* C4: for a table of Date and 11 price columns the export holds the rows from
\* index 2 on, in order, each as (Date, Index_Level of that row).
C4_ExportIsIndexLevel ==
    (pc = "exported" /\ Len(columns) = 1 + NumSymbols + 2) =>
        /\ Len(exported.rows) = (IF Len(df) > 2 THEN Len(df) - 2 ELSE 0)
        /\ \A i \in 1..Len(exported.rows) :
              exported.rows[i] = <<Cell(df[i + 2], 0), index_level[i + 2]>>

-----------------------------------------------------------------------------
(* C5 *)

\* C5: first_working_day and last_working_day return a date of the argument's
\* month that is neither a Saturday nor a Sunday: the 1st (the 3rd or 2nd when
\* the 1st is a Saturday or Sunday), the last calendar day (less 1 or 2 when it
\* is a Saturday or Sunday); these are the month's first and last working days.
C5_WorkingDaysInMonth ==
    (pc = "ret" /\ call.fn \in {"first_working_day", "last_working_day"}) =>
        LET s == split_date(call.arg)
            n == monthrange_days(s.year, s.month)
            w1 == weekday(s.year, s.month, 1)
            wn == weekday(s.year, s.month, n)
        IN  /\ ret.year = s.year
            /\ ret.month = s.month
            /\ ret.day \in 1..n
            /\ weekday(ret.year, ret.month, ret.day) \notin {5, 6}
            /\ call.fn = "first_working_day" =>
                 /\ ret.day = (IF w1 = 5 THEN 3 ELSE IF w1 = 6 THEN 2 ELSE 1)
                 /\ ret.day = FirstWorkingDayOfMonth(s.year, s.month)
            /\ call.fn = "last_working_day" =>
                 /\ ret.day = (IF wn = 5 THEN n - 1 ELSE IF wn = 6 THEN n - 2 ELSE n)
                 /\ ret.day = LastWorkingDayOfMonth(s.year, s.month)

\* last_working_day has answered for a leap February that ends on a Saturday
C5_Witness ==
    /\ pc = "ret"
    /\ call.fn = "last_working_day"
    /\ LET s == split_date(call.arg)
       IN  /\ s.month = 2
           /\ monthrange_days(s.year, s.month) = 29
           /\ weekday(s.year, s.month, 29) = 5
           /\ ret = Date(s.year, 2, 28)

-----------------------------------------------------------------------------
(* C6 *)

\* C6: whichever branch fired, the row's IndexLevel is its PortfolioValue
\* divided by the divisor in effect after the branch.
C6_LevelIsValueOverDivisor ==
    [][RowStep =>
          /\ Len(index_level') = idx + 1
          /\ Len(portfolio_value') = idx + 1
          /\ index_level'[idx + 1] = RDiv(portfolio_value'[idx + 1], divisor')]_vars

\* a divisor-update row has just been recorded under its freshly computed divisor
C6_Witness ==
    /\ pc = "loop"
    /\ idx >= 2
    /\ IsFirstWorkingDate(DateOfRow(idx))
    /\ divisor # One
    /\ index_level[idx] = RDiv(portfolio_value[idx], divisor)
    /\ index_level[idx] # index_level[idx - 1]

-----------------------------------------------------------------------------
(* C7 *)

\* the positions of three largest elements of v, largest first
TopThreePositions(v) ==
    CHOOSE p \in (1..Len(v)) \X (1..Len(v)) \X (1..Len(v)) :
        /\ p[1] # p[2] /\ p[1] # p[3] /\ p[2] # p[3]
        /\ v[p[1]] >= v[p[2]] /\ v[p[2]] >= v[p[3]]
        /\ \A j \in 1..Len(v) : j \notin {p[1], p[2], p[3]} => v[p[3]] >= v[j]

\* the smallest position (counted from 0) of v holding x
FirstPosition(v, x) == (CHOOSE i \in 1..Len(v) : v[i] = x /\ \A j \in 1..Len(v) : v[j] = x => i <= j) - 1

\* C7: top3_list_index returns, for each of the three largest values in
\* descending order, the smallest position holding it; the positions are
\* pairwise distinct exactly when the three values are, and equal values give
\* the same position twice.
C7_FirstOccurrenceWins ==
    (pc = "ret" /\ call.fn = "top3_list_index" /\ Len(call.arg) >= 3) =>
        LET v == call.arg
            p == TopThreePositions(v)
            distinctValues == v[p[1]] # v[p[2]] /\ v[p[2]] # v[p[3]] /\ v[p[1]] # v[p[3]]
            distinctPositions == ret[1] # ret[2] /\ ret[2] # ret[3] /\ ret[1] # ret[3]
        IN  /\ \A k \in 1..3 : ret[k] = FirstPosition(v, v[p[k]])
            /\ distinctPositions <=> distinctValues
            /\ \A k, l \in 1..3 : v[p[k]] = v[p[l]] => ret[k] = ret[l]

\* two of the three largest values are equal, held at different positions, and
\* the first of them was returned twice
C7_Witness ==
    /\ pc = "ret"
    /\ call.fn = "top3_list_index"
    /\ Len(call.arg) >= 4
    /\ LET v == call.arg
       IN  /\ ret[2] = ret[3]
           /\ ret[1] # ret[2]
           /\ \E j \in 1..Len(v) : j - 1 > ret[2] /\ v[j] = v[ret[2] + 1]
           /\ ret[1] > 0

-----------------------------------------------------------------------------
(* C8 *)

\* the 1-based columns of the three largest prices of a row, first occurrence each
TopThreeColumns(row) ==
    LET v == PriceList(row)
        p == TopThreePositions(v)
    IN  <<FirstPosition(v, v[p[1]]) + 1, FirstPosition(v, v[p[2]]) + 1,
          FirstPosition(v, v[p[3]]) + 1>>

\* a pass over six consecutive working days has ended; row 4 is its month's last
\* working day and row 5 the next month's first
SixRowBoundaryPass ==
    /\ pc = "loop"
    /\ Len(df) = 6
    /\ idx = 6
    /\ Gapless
    /\ IsLastWorkingDate(DateOfRow(5))
    /\ IsFirstWorkingDate(DateOfRow(6))

FirstFourRowsSeeded ==
    \A i \in 1..4 :
        /\ portfolio_value[i] = WeightedValue(df[i], <<1, 1, 1>>)
        /\ index_level[i] = RDiv(portfolio_value[i], One)

\* C8 (as amended): on such a pass rows 0..3 are valued with divisor 1 and
\* selection (1,1,1); row 4 recomputes the selection from its own prices; row 5,
\* whose index is above 3, recomputes the divisor from the value of the old
\* selection (1,1,1) at row 5, not from the constant 100.
C8_SixRowPassUsesOldSelection ==
    SixRowBoundaryPass =>
        /\ FirstFourRowsSeeded
        /\ top = TopThreeColumns(df[5])
        /\ old_tops = <<1, 1, 1>>
        /\ divisor = RDiv(WeightedValue(df[6], top), WeightedValue(df[6], <<1, 1, 1>>))
        /\ index_level[6] = RDiv(WeightedValue(df[6], <<1, 1, 1>>), One)

\* C8 as stated: row 5 recomputes the divisor with the constant 100 as the old value.
C8_SixRowPassUsesHundred ==
    SixRowBoundaryPass =>
        /\ FirstFourRowsSeeded
        /\ top = TopThreeColumns(df[5])
        /\ divisor = RDiv(WeightedValue(df[6], top), Rat(100, 1))

\* such a pass has ended with a selection other than the seed and a divisor other than 1
C8_Witness ==
    /\ SixRowBoundaryPass
    /\ top # <<1, 1, 1>>
    /\ divisor # One
    /\ WeightedValue(df[6], <<1, 1, 1>>) # Rat(100, 1)

-----------------------------------------------------------------------------
(* C9 *)

\* C9: each row takes exactly one branch: the selection changes only on a row
\* dated its month's last business day, the divisor only on a row dated its
\* month's first business day, no row changes both, an ordinary row changes
\* neither, and nothing outside the loop changes them.
C9_OneBranchPerRow ==
    [][/\ RowStep =>
            LET isLast == IsLastWorkingDate(DateOfRow(idx + 1))
                isFirst == IsFirstWorkingDate(DateOfRow(idx + 1))
            IN  /\ ~(isLast /\ isFirst)
                /\ top' # top => isLast
                /\ divisor' # divisor => isFirst
                /\ ~(top' # top /\ divisor' # divisor)
                /\ isLast => (old_tops' = top /\ top' = TopThreeColumns(Row) /\ divisor' = divisor)
                /\ isFirst => (old_tops' = old_tops /\ top' = top)
                /\ (~isLast /\ ~isFirst) =>
                      UNCHANGED <<top, old_tops, divisor, old_portfolio_value>>
       /\ ~InLoop => UNCHANGED <<top, old_tops, divisor>>]_vars

\* an ordinary row has just been consumed after a rebalance and a divisor update
C9_Witness ==
    /\ pc = "loop"
    /\ idx >= 3
    /\ ~IsLastWorkingDate(DateOfRow(idx))
    /\ ~IsFirstWorkingDate(DateOfRow(idx))
    /\ top # <<1, 1, 1>>
    /\ top # old_tops
    /\ divisor # One

-----------------------------------------------------------------------------
(* C10 *)

RebalanceRows == {i \in 1..Len(df) : IsRebalanceDay(Cell(df[i], 0))}

UpdateRows ==
    {i \in 1..Len(df) : ~IsRebalanceDay(Cell(df[i], 0)) /\ IsDivisorDay(Cell(df[i], 0))}

\* C10: in a table with a row for every Monday-Friday date of its span the row
\* after each rebalance row is a divisor-update row, there is exactly one
\* divisor-update row between two successive rebalance rows, and the row after a
\* rebalance is valued with the new selection under the updated divisor; when
\* the row after a rebalance is not a first-business-day row, the new selection
\* is valued under the unchanged divisor.
C10_UpdateFollowsRebalance ==
    [][/\ (pc = "loop" /\ idx = 0 /\ Gapless) =>
            /\ \A i \in RebalanceRows : i < Len(df) => (i + 1) \in UpdateRows
            /\ \A i, j \in RebalanceRows :
                  (i < j /\ \A k \in RebalanceRows : ~(i < k /\ k < j)) =>
                      Cardinality({k \in UpdateRows : i < k /\ k < j}) = 1
       /\ (RowStep /\ idx >= 1 /\ IsRebalanceDay(Cell(df[idx], 0)) /\ Gapless) =>
            /\ top = TopThreeColumns(df[idx])
            /\ top' = top
            /\ divisor' = RMul(RDiv(WeightedValue(Row, top),
                                    IF idx >= 4 THEN WeightedValue(Row, old_tops)
                                    ELSE Rat(100, 1)),
                               divisor)
            /\ index_level'[idx + 1] = RDiv(WeightedValue(Row, top), divisor')
       /\ (RowStep /\ idx >= 1 /\ IsRebalanceDay(Cell(df[idx], 0))
              /\ ~IsFirstWorkingDate(DateOfRow(idx + 1))
              /\ ~IsLastWorkingDate(DateOfRow(idx + 1))) =>
            /\ top = TopThreeColumns(df[idx])
            /\ divisor' = divisor
            /\ index_level'[idx + 1] = RDiv(WeightedValue(Row, top), divisor)]_vars

\* a gapless pass has gone through two rebalances, each followed by its divisor update
C10_Witness ==
    /\ pc = "loop"
    /\ idx = Len(df)
    /\ Gapless
    /\ Cardinality(RebalanceRows) = 2
    /\ \A i \in RebalanceRows : (i + 1) \in UpdateRows
    /\ \E i \in RebalanceRows : i >= 5 /\ WeightedValue(df[i + 1], old_tops) # WeightedValue(df[i + 1], top)
    /\ divisor # One

=============================================================================
